---- MODULE Spec2Model ----
(***************************************************************************)
(* Model of the auto-trader session of UNIFIED_TRADING_BOT_COMPLETE.py:    *)
(* the /autoagree and /stopauto command handlers, which run one at a time  *)
(* on the polling thread (telebot.TeleBot(..., threaded=False)), and the   *)
(* auto_trade_loop threads that /autoagree spawns.  The handlers and the   *)
(* loops share auto_trader_running, current_auto and trade_stats without   *)
(* any lock, so every statement of a thread is a step of its own and an    *)
(* augmented assignment d[k] += c is a load step followed by a store step. *)
(***************************************************************************)
EXTENDS Integers, Sequences, FiniteSets, TLC

\* ------------------------------------------------------------------ bounds
MaxStarts == 2      \* /autoagree requests, at most one loop thread each
MaxCycles == 1      \* cycles that update a counter, all loops together
MaxParts  == 4      \* tokens of an /autoagree message
SeriesLen == 25     \* candles of a fetched series
MaxTrades == 2      \* entries of auto_trade_history
MaxLimit  == 3      \* the limit of a get_kline_data call
MaxTick   == 2      \* seconds the clock advances during one call

\* --------------------------------------------------------- program constants
MinParts     == 4   \* if len(parts) < 4: usage
StrongMin    == 6   \* if signal_count >= 6
WeakMin      == 3   \* elif 3 <= signal_count < 6
WinProfit    == 35  \* trade_stats["profit_pct"] += 35
LossProfit   == 8   \* trade_stats["profit_pct"] -= 8
TokenCap     == 3   \* token_list = [...][:3]
CandleSeconds == 60 \* int(time.time()) - i * 60

Loops == 1..MaxStarts

\* len(confirmations) of one strategy evaluation (the confluence engine
\* returns 0..10 labels, the simplified strategies 2..6): the values on both
\* sides of the two thresholds
Counts == {2, 3, 5, 6}

\* message.text.split() of an /autoagree message: the command, a symbol,
\* timeframes and a leverage; the messages of one to three tokens and the
\* message of MaxParts tokens
Messages ==
    {<<"/autoagree">>, <<"/autoagree", "btcusdt">>} \cup
    {<<"/autoagree", "btcusdt">> \o [i \in 1..k |-> "15m"] \o <<"5x">> : k \in {0, MaxParts - 3}}

\* str.upper()
Upper(tok) ==
    CASE tok = "btcusdt" -> "BTCUSDT"
      [] tok = "ethusdt" -> "ETHUSDT"
      [] OTHER -> tok

\* int(parts[-1].replace("x", "")) if parts[-1].endswith("x") else 10
ParseLeverage(tok) == IF tok = "5x" THEN 5 ELSE 10

\* parts[2:-1] if len(parts) > 3 else [parts[2]]
ParseTimeframes(parts) ==
    IF Len(parts) > 3 THEN SubSeq(parts, 3, Len(parts) - 1) ELSE <<parts[3]>>

RejectedMut(parts) == Len(parts) < MinParts - 1
\* if len(parts) < 4: usage reply and return
Rejected(parts) == Len(parts) < MinParts

ClassifyMut(n) ==
    IF n >= StrongMin - 1 THEN "strong"
    ELSE IF WeakMin <= n /\ n < StrongMin - 1 THEN "weak"
    ELSE "neutral"
\* if signal_count >= 6 / elif 3 <= signal_count < 6 / else
Classify(n) ==
    IF n >= StrongMin THEN "strong"
    ELSE IF WeakMin <= n /\ n < StrongMin THEN "weak"
    ELSE "neutral"

\* the identifiers the four strategy commands assign to current_strategy
StrategyIds == {"Quantum Engine V2.0", "Momentum Scalper V1.0",
                "Breakout Hunter V1.0", "Mean Reversion V1.0"}

ZeroStats == [wins |-> 0, losses |-> 0, profit_pct |-> 0]
NoConfig  == [symbol |-> "None", timeframes |-> <<>>, leverage |-> 0]
NoSnap    == [ok |-> FALSE, s |-> ZeroStats]
NoReport  == [kind |-> "none"]
NoArgs    == [symbol |-> "None", timeframes |-> <<>>]
NoDex     == [pc |-> "check", left |-> <<>>]
NoFetch   == [pc |-> "idle", limit |-> 0, now |-> 0, why |-> "none", rows |-> <<>>]
\* the two kinds of message.from_user.id: ADMIN_ID and any other user
Admin     == "admin"
Users     == {Admin, "user"}
NoInd     == [ob_detected |-> FALSE, fvg_zone |-> FALSE, bos_break |-> FALSE,
              ema_cross |-> FALSE, macd_signal |-> FALSE, supertrend_buy |-> FALSE,
              boll_band_squeeze |-> FALSE, breakout_detected |-> FALSE,
              volume_spike |-> FALSE, hidden_div |-> FALSE]

VARIABLES
    auto_trader_running,  \* the running flag
    current_auto,         \* the session configuration
    trade_stats,          \* the content of the dict trade_stats is bound to
    epoch,                \* identity of that dict: the number of rebindings
    hpc,                  \* position of the /autoagree handler
    req,                  \* its local parts = message.text.split()
    h_args,               \* its locals symbol, timeframes, leverage
    reply,                \* the last reply a handler sent
    starts,               \* /autoagree requests received
    pc,                   \* position of each auto_trade_loop thread
    cnt,                  \* signal_count of the loop's cycle
    ref,                  \* the dict the loop loaded for its pending store
    tmp,                  \* the value the loop read for its pending store
    preReset,             \* trade_stats was rebound since the top of the
                          \* loop's cycle, which has a store ahead
    snap,                 \* trade_stats when the cycle chose a branch that
                          \* updates a counter, while no other thread has
                          \* written trade_stats since
    stopped,              \* the loops 1..stopped were started before the
                          \* last /stopauto
    raised,               \* the cycle the loop has just ended raised
    cycled,               \* a cycle has completed since the last stats reset
    total,                \* cycles that went on to update a counter
    current_strategy,     \* the strategy identifier
    report,               \* what the last /status reply showed
    site,                 \* the caller of the strategy evaluation under way
    selected,             \* the strategy function the caller's if-chain called
    epc,                  \* position of the strategy evaluation
    df,                   \* the candles get_kline_data returned
    ind,                  \* the indicator conditions computed from df
    confirmations,        \* the labels of the evaluation
    l_args,               \* symbol, timeframes of the closure of each loop
    sent,                 \* the notification the loop's cycle has sent
    sender,               \* message.from_user.id of the message dispatched
    bot_locked,           \* the lock flag
    auto_trade_history,   \* the list of recorded trades
    csv_rows,             \* the rows of auto_trade_history.csv
    dex,                  \* position of auto_trade_dex_loop, tokens left
    man_left,             \* tokens left to the /autotrade handler
    fetch                 \* one get_kline_data call: position, limit, rows

vars == <<auto_trader_running, current_auto, trade_stats, epoch, hpc, req, h_args,
          reply, starts, pc, cnt, ref, tmp, preReset, snap, stopped, raised,
          cycled, total, current_strategy, report, site, selected, epc, df, ind,
          confirmations, l_args, sent, sender, bot_locked, auto_trade_history,
          csv_rows, dex, man_left, fetch>>

sessionVars == <<auto_trader_running, current_auto, trade_stats, epoch>>
handlerVars == <<hpc, req, h_args, reply, starts>>
loopLocals  == <<cnt, ref, tmp, preReset>>
ctlVars     == <<current_strategy, report>>
evalVars    == <<site, selected, epc, df, ind, confirmations>>
tradeVars   == <<sender, bot_locked, auto_trade_history, csv_rows, dex, man_left>>
auxVars     == <<tradeVars, fetch>>

Live(l) == pc[l] \notin {"unborn", "done"}
LiveLoops == {l \in Loops : Live(l)}
InCycle(l) == pc[l] \in {"eval", "st1", "ld2", "st2", "notify"}

Init ==
    /\ auto_trader_running = FALSE
    /\ current_auto = [symbol |-> "None", timeframes |-> <<>>,
                       leverage |-> 0, strategy |-> "quantum"]
    /\ trade_stats = ZeroStats
    /\ epoch = 0
    /\ hpc = "idle"
    /\ req = <<>>
    /\ h_args = NoConfig
    /\ reply = "none"
    /\ starts = 0
    /\ pc = [l \in Loops |-> "unborn"]
    /\ cnt = [l \in Loops |-> 0]
    /\ ref = [l \in Loops |-> 0]
    /\ tmp = [l \in Loops |-> 0]
    /\ preReset = [l \in Loops |-> FALSE]
    /\ snap = [l \in Loops |-> NoSnap]
    /\ stopped = 0
    /\ raised = [l \in Loops |-> FALSE]
    /\ cycled = FALSE
    /\ total = 0
    /\ current_strategy = "Quantum Engine V2.0"
    /\ report = NoReport
    /\ site = "none"
    /\ selected = "none"
    /\ epc = "idle"
    /\ df = <<>>
    /\ ind = NoInd
    /\ confirmations = <<>>
    /\ l_args = [l \in Loops |-> NoArgs]
    /\ sent = [l \in Loops |-> "none"]
    /\ sender = Admin
    /\ bot_locked = FALSE
    /\ auto_trade_history = <<>>
    /\ csv_rows = <<>>
    /\ dex = NoDex
    /\ man_left = <<>>
    /\ fetch = NoFetch

\* --------------------------------------------------- /autoagree (lines 1277-1335)

\* line 1281: the polling thread dispatches an /autoagree message and the
\* handler splits its text.  The thread of the n-th rebinding of trade_stats
\* is loop n.
StartReceive(parts) ==
    /\ hpc = "idle"
    /\ starts < MaxStarts
    /\ starts' = starts + 1
    /\ req' = parts
    /\ hpc' = "s_parse"
    /\ UNCHANGED <<sessionVars, h_args, reply,
                   pc, loopLocals, snap, stopped, raised, cycled, total>>
    /\ UNCHANGED <<ctlVars, evalVars, l_args, sent, auxVars>>

\* lines 1282-1284: a message of fewer than 4 tokens gets the usage reply; if
\* sending it raises, the except clause of line 1334 sends the error reply.
\* Nothing else is touched.
StartRejected ==
    /\ hpc = "s_parse"
    /\ Rejected(req)
    /\ \E r \in {"usage", "error"} : reply' = r
    /\ req' = <<>>
    /\ hpc' = "idle"
    /\ UNCHANGED <<sessionVars, h_args, starts,
                   pc, loopLocals, snap, stopped, raised, cycled, total>>
    /\ UNCHANGED <<ctlVars, evalVars, l_args, sent, auxVars>>

\* lines 1286-1293: parse the message into the handler's locals and set the flag
StartRequest ==
    /\ hpc = "s_parse"
    /\ ~Rejected(req)
    /\ h_args' = [symbol |-> Upper(req[2]),
                  timeframes |-> ParseTimeframes(req),
                  leverage |-> ParseLeverage(req[Len(req)])]
    /\ auto_trader_running' = TRUE
    /\ req' = <<>>
    /\ hpc' = "s_cfg"
    /\ UNCHANGED <<current_auto, trade_stats, epoch, reply, starts,
                   pc, loopLocals, snap, stopped, raised, cycled, total>>
    /\ UNCHANGED <<ctlVars, evalVars, l_args, sent, auxVars>>

\* line 1294: current_auto = {...}
StartConfig ==
    /\ hpc = "s_cfg"
    /\ current_auto' = [symbol |-> h_args.symbol, timeframes |-> h_args.timeframes,
                        leverage |-> h_args.leverage, strategy |-> current_strategy]
    /\ hpc' = "s_stats"
    /\ UNCHANGED <<auto_trader_running, trade_stats, epoch, req, h_args, reply, starts,
                   pc, loopLocals, snap, stopped, raised, cycled, total>>
    /\ UNCHANGED <<ctlVars, evalVars, l_args, sent, auxVars>>

\* line 1295: trade_stats is rebound to a fresh dict of zeros
StartResetStats ==
    /\ hpc = "s_stats"
    /\ trade_stats' = ZeroStats
    /\ epoch' = epoch + 1
    /\ cycled' = FALSE
    /\ snap' = [l \in Loops |-> NoSnap]
    /\ preReset' = [l \in Loops |-> pc[l] \in {"eval", "st1", "ld2", "st2"}]
    /\ hpc' = "s_reply"
    /\ UNCHANGED <<auto_trader_running, current_auto, req, h_args, reply, starts,
                   pc, cnt, ref, tmp, stopped, raised, total>>
    /\ UNCHANGED <<ctlVars, evalVars, l_args, sent, auxVars>>

\* line 1297: the confirmation reply; when it raises, the except clause of
\* line 1334 replies with the error text and the thread is never started
StartReply ==
    /\ hpc = "s_reply"
    /\ \/ reply' = "started" /\ hpc' = "s_spawn" /\ UNCHANGED h_args
       \/ reply' = "error" /\ hpc' = "idle" /\ h_args' = NoConfig
    /\ UNCHANGED <<sessionVars, req, starts,
                   pc, loopLocals, snap, stopped, raised, cycled, total>>
    /\ UNCHANGED <<ctlVars, evalVars, l_args, sent, auxVars>>

\* line 1332: threading.Thread(target=auto_trade_loop, daemon=True).start()
StartSpawn ==
    /\ hpc = "s_spawn"
    /\ pc[epoch] = "unborn"
    /\ pc' = [pc EXCEPT ![epoch] = "check"]
    /\ l_args' = [l_args EXCEPT ![epoch] = [symbol |-> h_args.symbol,
                                            timeframes |-> h_args.timeframes]]
    /\ hpc' = "idle"
    /\ h_args' = NoConfig
    /\ UNCHANGED <<sessionVars, req, reply, starts,
                   loopLocals, snap, stopped, raised, cycled, total>>
    /\ UNCHANGED <<ctlVars, evalVars, sent, auxVars>>

\* ---------------------------------------------------- /stopauto (lines 1442-1445)
StopAutoMut ==
    /\ hpc = "idle"
    /\ auto_trader_running' = FALSE
    /\ trade_stats' = ZeroStats
    /\ stopped' = epoch
    /\ reply' = "stopped"
    /\ UNCHANGED <<current_auto, epoch, hpc, req, h_args, starts,
                   pc, loopLocals, snap, raised, cycled, total>>
    /\ UNCHANGED <<ctlVars, evalVars, l_args, sent, auxVars>>
\* lines 1443-1445: the flag is cleared and the reply sent
StopAuto ==
    /\ hpc = "idle"
    /\ auto_trader_running' = FALSE
    /\ stopped' = epoch
    /\ reply' = "stopped"
    /\ UNCHANGED <<current_auto, trade_stats, epoch, hpc, req, h_args, starts,
                   pc, loopLocals, snap, raised, cycled, total>>
    /\ UNCHANGED <<ctlVars, evalVars, l_args, sent, auxVars>>

\* ------------------- /quantum /momentum /breakout /meanreversion (lines 1227-1249)
SetStrategyMut(id) ==
    /\ hpc = "idle"
    /\ id \in StrategyIds
    /\ current_strategy' = id
    /\ trade_stats' = ZeroStats
    /\ epoch' = epoch + 1
    /\ reply' = "strategy"
    /\ UNCHANGED <<auto_trader_running, current_auto, hpc, req, h_args, starts,
                   pc, loopLocals, snap, stopped, raised, cycled, total, report, evalVars, l_args, sent, auxVars>>
\* current_strategy = "<name>"; the reply names the new strategy
SetStrategy(id) ==
    /\ hpc = "idle"
    /\ id \in StrategyIds
    /\ current_strategy' = id
    /\ reply' = "strategy"
    /\ UNCHANGED <<sessionVars, hpc, req, h_args, starts,
                   pc, loopLocals, snap, stopped, raised, cycled, total, report, evalVars, l_args, sent, auxVars>>

\* ------------------------------------------------------ /status (lines 1255-1271)
\* the text of the reply: with the flag set it shows the strategy, the
\* configuration and the three statistics, otherwise only the strategy
StatusText ==
    IF auto_trader_running
      THEN [kind |-> "status", running |-> TRUE, strategy |-> current_strategy,
            config |-> [symbol |-> current_auto.symbol,
                        timeframes |-> current_auto.timeframes,
                        leverage |-> current_auto.leverage],
            stats |-> trade_stats]
      ELSE [kind |-> "status", running |-> FALSE, strategy |-> current_strategy]

Status ==
    /\ hpc = "idle"
    /\ report' = StatusText
    /\ reply' = "status"
    /\ UNCHANGED <<sessionVars, hpc, req, h_args, starts, current_strategy,
                   pc, loopLocals, snap, stopped, raised, cycled, total, evalVars, l_args, sent, auxVars>>

\* ------------------------------------------- auto_trade_loop (lines 1300-1330)

\* line 1330 and line 1301: time.sleep(10) returns and the loop tests
\* while auto_trader_running
LoopCheck(l) ==
    /\ pc[l] = "check"
    /\ IF auto_trader_running
         THEN pc' = [pc EXCEPT ![l] = "eval"]
         ELSE pc' = [pc EXCEPT ![l] = "done"]
    /\ raised' = [raised EXCEPT ![l] = FALSE]
    /\ sent' = [sent EXCEPT ![l] = "none"]
    /\ UNCHANGED <<sessionVars, handlerVars, loopLocals, snap, stopped, cycled,
                   total>>
    /\ UNCHANGED <<ctlVars, evalVars, l_args, auxVars>>

\* lines 1303-1318 / 1322: the strategy is evaluated (network I/O), its labels
\* are counted and the branch of lines 1317-1326 is chosen; in the first two
\* branches the loop loads the dict and reads the counter, the first half of
\* trade_stats[...] += 1.  Once MaxCycles cycles have taken a branch that
\* updates a counter, only the third branch is explored.
LoopEval(l, n) ==
    /\ pc[l] = "eval"
    /\ cnt' = [cnt EXCEPT ![l] = n]
    /\ IF Classify(n) = "neutral"
         THEN /\ pc' = [pc EXCEPT ![l] = "notify"]
              /\ preReset' = [preReset EXCEPT ![l] = FALSE]
              /\ UNCHANGED <<total, snap, ref, tmp>>
         ELSE /\ total < MaxCycles
              /\ total' = total + 1
              /\ pc' = [pc EXCEPT ![l] = "st1"]
              /\ ref' = [ref EXCEPT ![l] = epoch]
              /\ tmp' = [tmp EXCEPT ![l] = IF Classify(n) = "strong"
                                             THEN trade_stats.wins
                                             ELSE trade_stats.losses]
              /\ snap' = [snap EXCEPT ![l] = [ok |-> TRUE, s |-> trade_stats]]
              /\ UNCHANGED preReset
    /\ UNCHANGED <<sessionVars, handlerVars, stopped, raised, cycled>>
    /\ UNCHANGED <<ctlVars, evalVars, l_args, sent, auxVars>>

\* the cycle of a loop whose strategy returned any of the label counts
LoopEvalOk(l) == \E n \in Counts : LoopEval(l, n)

\* lines 1327-1330: an exception of the evaluation is caught and printed
LoopEvalRaise(l) ==
    /\ pc[l] = "eval"
    /\ pc' = [pc EXCEPT ![l] = "check"]
    /\ raised' = [raised EXCEPT ![l] = TRUE]
    /\ preReset' = [preReset EXCEPT ![l] = FALSE]
    /\ cycled' = TRUE
    /\ UNCHANGED <<sessionVars, handlerVars, cnt, ref, tmp, snap, stopped, total>>
    /\ UNCHANGED <<ctlVars, evalVars, l_args, sent, auxVars>>

\* the store of a loop lands in trade_stats only if the dict it loaded is
\* still the one trade_stats is bound to
Landed(l, field, value) ==
    IF ref[l] = epoch THEN [trade_stats EXCEPT ![field] = value] ELSE trade_stats

\* the snapshots of the other loops end when a store of loop l lands
Disturb(l) ==
    [k \in Loops |-> IF k = l \/ ref[l] # epoch THEN snap[k] ELSE NoSnap]

\* lines 1318 / 1322, second half: store the counter plus one
LoopStore1(l) ==
    /\ pc[l] = "st1"
    /\ trade_stats' = Landed(l, IF Classify(cnt[l]) = "strong" THEN "wins" ELSE "losses",
                             tmp[l] + 1)
    /\ snap' = Disturb(l)
    /\ ref' = [ref EXCEPT ![l] = 0]
    /\ tmp' = [tmp EXCEPT ![l] = 0]
    /\ pc' = [pc EXCEPT ![l] = "ld2"]
    /\ UNCHANGED <<auto_trader_running, current_auto, epoch, handlerVars,
                   cnt, preReset, stopped, raised, cycled, total>>
    /\ UNCHANGED <<ctlVars, evalVars, l_args, sent, auxVars>>

\* lines 1319 / 1323, first half
LoopLoad2(l) ==
    /\ pc[l] = "ld2"
    /\ ref' = [ref EXCEPT ![l] = epoch]
    /\ tmp' = [tmp EXCEPT ![l] = trade_stats.profit_pct]
    /\ pc' = [pc EXCEPT ![l] = "st2"]
    /\ UNCHANGED <<sessionVars, handlerVars, cnt, preReset, snap, stopped,
                   raised, cycled, total>>
    /\ UNCHANGED <<ctlVars, evalVars, l_args, sent, auxVars>>

\* lines 1319 / 1323, second half: += 35 or -= 8
LoopStore2(l) ==
    /\ pc[l] = "st2"
    /\ trade_stats' = Landed(l, "profit_pct",
                             IF Classify(cnt[l]) = "strong"
                               THEN tmp[l] + WinProfit ELSE tmp[l] - LossProfit)
    /\ snap' = Disturb(l)
    /\ ref' = [ref EXCEPT ![l] = 0]
    /\ tmp' = [tmp EXCEPT ![l] = 0]
    /\ preReset' = [preReset EXCEPT ![l] = FALSE]
    /\ pc' = [pc EXCEPT ![l] = "notify"]
    /\ UNCHANGED <<auto_trader_running, current_auto, epoch, handlerVars,
                   cnt, stopped, raised, cycled, total>>
    /\ UNCHANGED <<ctlVars, evalVars, l_args, sent, auxVars>>

NotifyKindMut(n) ==
    CASE Classify(n) = "strong"  -> "success"
      [] Classify(n) = "weak"    -> "waiting"
      [] Classify(n) = "neutral" -> "waiting"
\* the text of the branch of lines 1320 / 1324 / 1326
NotifyKind(n) ==
    CASE Classify(n) = "strong"  -> "success"
      [] Classify(n) = "weak"    -> "caution"
      [] Classify(n) = "neutral" -> "waiting"

\* the end of a cycle: the loop is back at time.sleep(10); bot.send_message
\* has delivered the text of the cycle's branch unless it raised
EndCycle(l, exc, next) ==
    /\ pc' = [pc EXCEPT ![l] = next]
    /\ raised' = [raised EXCEPT ![l] = exc]
    /\ sent' = [sent EXCEPT ![l] = IF exc THEN "none" ELSE NotifyKind(cnt[l])]
    /\ cnt' = [cnt EXCEPT ![l] = 0]
    /\ preReset' = [preReset EXCEPT ![l] = FALSE]
    /\ snap' = [snap EXCEPT ![l] = NoSnap]
    /\ cycled' = TRUE
    /\ UNCHANGED <<sessionVars, handlerVars, ref, tmp, stopped, total>>
    /\ UNCHANGED <<ctlVars, evalVars, l_args, auxVars>>

LoopNotifyMut(l) ==
    /\ pc[l] = "notify"
    /\ \/ EndCycle(l, FALSE, "check")
       \/ EndCycle(l, TRUE, "done")
\* lines 1320 / 1324 / 1326: bot.send_message; an exception is caught by
\* lines 1327-1328 and the loop goes on to time.sleep(10)
LoopNotify(l) ==
    /\ pc[l] = "notify"
    /\ \/ EndCycle(l, FALSE, "check")
       \/ EndCycle(l, TRUE, "check")

LoopStep(l) ==
    \/ LoopCheck(l)
    \/ LoopEvalOk(l)
    \/ LoopEvalRaise(l)
    \/ LoopStore1(l)
    \/ LoopLoad2(l)
    \/ LoopStore2(l)
    \/ LoopNotify(l)

Next ==
    \/ \E parts \in Messages : StartReceive(parts)
    \/ StartRejected
    \/ StartRequest
    \/ StartConfig
    \/ StartResetStats
    \/ StartReply
    \/ StartSpawn
    \/ StopAuto
    \/ \E l \in Loops : LoopStep(l)

Spec == Init /\ [][Next]_vars

HandlerStep ==
    StartRejected \/ StartRequest \/ StartConfig \/ StartResetStats \/ StartReply \/ StartSpawn

\* the scheduler runs every loop thread that can take a step, and the polling
\* thread runs a handler it has entered to its end
FairSpec ==
    Spec /\ WF_vars(HandlerStep) /\ \A l \in Loops : WF_vars(LoopStep(l))

\* ------------------------------------------------ strategy evaluation
\* The strategies as functions of their inputs.  One evaluation is followed
\* from the if-chain of its caller to the use of the returned labels; the
\* caller is the scheduler cycle of a running session (site "loop") or the
\* /analyze or /quicksignal handler.

\* the confirmation labels of quantum_smart_money_engine_v2 in the order of
\* its append statements (lines 211-215 and 268-278)
LabelOrder ==
    <<"Order Block Break", "Fair Value Gap", "Break of Structure",
      "EMA + MACD Confluence", "SuperTrend Signal", "Bollinger Squeeze",
      "Breakout Confirmation", "Volume Surge", "Hidden Divergence">>

\* line 285 (the label's leading emoji is left out)
Approval == "Quantum Approval"
\* line 199 and line 289
DataError == "Data Error"
SystemError == "System Error - Using Fallback"

\* the signals lists of lines 297, 306 and 315
Candidates(fn) ==
    CASE fn = "momentum" ->
           {"Momentum Break", "Volume Spike", "RSI Oversold", "EMA Golden Cross",
            "Price Acceleration", "Trend Continuation"}
      [] fn = "breakout" ->
           {"Resistance Break", "Support Break", "Volume Confirmation",
            "Bollinger Breakout", "Triangle Pattern", "Flag Pattern"}
      [] fn = "meanrev" ->
           {"RSI Overbought", "Bollinger Upper Touch", "Price Rejection",
            "Volume Divergence", "Support Test", "Mean Touch"}

\* random.sample(population, k): k distinct elements in any order
Sample(population, k) ==
    {r \in [1..k -> population] : \A i, j \in 1..k : r[i] = r[j] => i = j}

SimpleResultsMut(fn) ==
    UNION {Sample(Candidates(fn), k) : k \in 1..Cardinality(Candidates(fn))}
\* random.sample(signals, random.randint(2, len(signals))), lines 298, 307, 316;
\* the call cannot raise, so the except clauses are dead
SimpleResults(fn) ==
    UNION {Sample(Candidates(fn), k) : k \in 2..Cardinality(Candidates(fn))}

\* the if-chain of auto_trade_loop, lines 1304-1313
SelectLoop(id) ==
    IF id = "Quantum Engine V2.0" THEN "quantum"
    ELSE IF id = "Momentum Scalper V1.0" THEN "momentum"
    ELSE IF id = "Breakout Hunter V1.0" THEN "breakout"
    ELSE IF id = "Mean Reversion V1.0" THEN "meanrev"
    ELSE "quantum"

\* the if-chain of analyze_command, lines 951-958
SelectAnalyze(id) ==
    IF id = "Quantum Engine V2.0" THEN "quantum"
    ELSE IF id = "Momentum Scalper V1.0" THEN "momentum"
    ELSE IF id = "Breakout Hunter V1.0" THEN "breakout"
    ELSE "meanrev"

\* the if-chain of quicksignal_command, lines 1857-1860
SelectQuick(id) ==
    IF id = "Quantum Engine V2.0" THEN "quantum" ELSE "momentum"

SelectAt(s, id) ==
    CASE s = "loop" -> SelectLoop(id)
      [] s = "analyze" -> SelectAnalyze(id)
      [] s = "quicksignal" -> SelectQuick(id)

\* ---- candle series and the conditions computed from them with integers

Abs(x) == IF x < 0 THEN -x ELSE x
MaxOf(S) == CHOOSE x \in S : \A y \in S : y <= x
MinOf(S) == CHOOSE x \in S : \A y \in S : x <= y

\* the index set of df.tail(n)
TailIdx(d, n) == {i \in 1..Len(d) : i > Len(d) - n}

RECURSIVE SumOver(_, _, _)
\* the sum of f[i] over the indices in S
SumOver(f, S, acc) ==
    IF S = {} THEN acc
    ELSE LET i == CHOOSE x \in S : TRUE IN SumOver(f, S \ {i}, acc + f[i])

\* a series of n candles whose closes stay at 100 and end with a rise of
\* jump, with high = close + ho, low = close - lo and a last volume of v.
\* get_kline_data does not check that low <= close <= high, and
\* _generate_mock_data draws the three independently.
Candles(n, jump, ho, lo, v) ==
    [i \in 1..n |->
        LET c == IF i = n THEN 100 + jump ELSE 100
        IN [close |-> c, high |-> c + ho, low |-> c - lo,
            volume |-> IF i = n THEN v ELSE 100]]

\* what get_kline_data may return: an empty frame, series shorter than the
\* windows of the detectors and series of SeriesLen candles
Series ==
    {<<>>} \cup
    {Candles(n, jump, ho, lo, v) :
        n \in {2, 5, SeriesLen}, jump \in {0, 10}, ho \in {-2, 0, 5}, lo \in {-20, 1, 10},
        v \in {100, 1000}}

LastClose(d) == d[Len(d)].close

\* detect_order_blocks, lines 96-105:
\* close > max(high of the last 10) * 0.998, for at least 20 candles
DetectOrderBlocks(d) ==
    /\ Len(d) >= 20
    /\ 1000 * LastClose(d) > 998 * MaxOf({d[i].high : i \in TailIdx(d, 10)})

\* detect_fair_value_gap, lines 107-119:
\* abs(high[i] - low[i+2]) > mean(high - low) * 1.5 for some i
DetectFairValueGap(d) ==
    /\ Len(d) >= 3
    /\ \E i \in 1..(Len(d) - 2) :
          2 * Len(d) * Abs(d[i].high - d[i + 2].low)
              > 3 * SumOver([k \in 1..Len(d) |-> d[k].high - d[k].low], 1..Len(d), 0)

\* lines 206-208: current_price > recent_high * 1.002
BosBreak(d) ==
    1000 * LastClose(d) > 1002 * MaxOf({d[i].high : i \in TailIdx(d, 20)})

\* lines 247-249: current_volume > mean(volume of the last 20) * 1.5
VolumeSpike(d) ==
    2 * Cardinality(TailIdx(d, 20)) * d[Len(d)].volume
        > 3 * SumOver([k \in 1..Len(d) |-> d[k].volume], TailIdx(d, 20), 0)

BreakoutDetectedMut(d) ==
    \/ LastClose(d) > MaxOf({d[i].high : i \in TailIdx(d, 21) \ {Len(d)}})
    \/ LastClose(d) < MinOf({d[i].low : i \in TailIdx(d, 21) \ {Len(d)}})
\* lines 252-254: current_price > resistance or current_price < support
BreakoutDetected(d) ==
    \/ LastClose(d) > MaxOf({d[i].high : i \in TailIdx(d, 20)})
    \/ LastClose(d) < MinOf({d[i].low : i \in TailIdx(d, 20)})

\* confirmations.append(label) if cond
AppendIf(labels, cond, label) == IF cond THEN Append(labels, label) ELSE labels

\* the state an evaluation starts in.  For the scheduler cycle it is the
\* first session running with its loop at the strategy call; for the two
\* handlers it is the bot before any session.  The identifier is any of the
\* four the strategy commands assign, or one that names no strategy.
EvalInit ==
    /\ site \in {"loop", "analyze", "quicksignal"}
    /\ current_strategy \in StrategyIds \cup {"Unknown Strategy"}
    /\ auto_trader_running = (site = "loop")
    /\ current_auto = IF site = "loop"
                        THEN [symbol |-> "BTCUSDT", timeframes |-> <<"15m">>,
                              leverage |-> 5, strategy |-> "Quantum Engine V2.0"]
                        ELSE [symbol |-> "None", timeframes |-> <<>>,
                              leverage |-> 0, strategy |-> "quantum"]
    /\ trade_stats = ZeroStats
    /\ epoch = IF site = "loop" THEN 1 ELSE 0
    /\ hpc = IF site = "loop" THEN "idle" ELSE site
    /\ req = <<>>
    /\ h_args = NoConfig
    /\ reply = IF site = "loop" THEN "started" ELSE "none"
    /\ starts = IF site = "loop" THEN 1 ELSE 0
    /\ pc = [l \in Loops |-> IF site = "loop" /\ l = 1 THEN "eval" ELSE "unborn"]
    /\ cnt = [l \in Loops |-> 0]
    /\ ref = [l \in Loops |-> 0]
    /\ tmp = [l \in Loops |-> 0]
    /\ preReset = [l \in Loops |-> FALSE]
    /\ snap = [l \in Loops |-> NoSnap]
    /\ stopped = 0
    /\ raised = [l \in Loops |-> FALSE]
    /\ cycled = FALSE
    /\ total = 0
    /\ report = NoReport
    /\ selected = "none"
    /\ epc = "idle"
    /\ df = <<>>
    /\ ind = NoInd
    /\ confirmations = <<>>
    /\ l_args = [l \in Loops |-> IF site = "loop" /\ l = 1
                                   THEN [symbol |-> "BTCUSDT", timeframes |-> <<"15m">>]
                                   ELSE NoArgs]
    /\ sent = [l \in Loops |-> "none"]
    /\ sender = Admin
    /\ bot_locked = FALSE
    /\ auto_trade_history = <<>>
    /\ csv_rows = <<>>
    /\ dex = NoDex
    /\ man_left = <<>>
    /\ fetch = NoFetch

mainVars == <<sessionVars, handlerVars, pc, loopLocals, snap, stopped, raised,
              cycled, total, ctlVars, l_args, sent, tradeVars>>

\* the caller's if-chain picks the strategy function by current_strategy
Select ==
    /\ epc = "idle"
    /\ selected = "none"
    /\ selected' = SelectAt(site, current_strategy)
    /\ epc' = IF selected' = "quantum" THEN "fetch" ELSE "sample"
    /\ UNCHANGED <<mainVars, fetch, site, df, ind, confirmations>>

\* lines 294-319: a simplified strategy returns its sample
SimpleSample ==
    /\ epc = "sample"
    /\ \E r \in SimpleResults(selected) : confirmations' = r
    /\ epc' = "returned"
    /\ UNCHANGED <<mainVars, fetch, site, selected, df, ind>>

\* lines 190-199: confirmations = [], the candles are fetched, and an empty
\* frame ends the evaluation with ["Data Error"]
EngineFetch ==
    /\ epc = "fetch"
    /\ \E d \in Series :
         /\ df' = d
         /\ IF d = <<>>
              THEN confirmations' = <<DataError>> /\ epc' = "returned"
              ELSE confirmations' = <<>> /\ epc' = "smc"
    /\ UNCHANGED <<mainVars, fetch, site, selected, ind>>

EngineStructureMut ==
    /\ epc = "smc"
    /\ LET ob == DetectOrderBlocks(df)
           fvg == DetectFairValueGap(df)
           bos == BosBreak(df)
       IN /\ ind' = [ind EXCEPT !.ob_detected = ob, !.fvg_zone = fvg, !.bos_break = bos]
          /\ confirmations' =
                AppendIf(AppendIf(AppendIf(AppendIf(confirmations,
                    ob, "Order Block"),
                    ob /\ bos, "Order Block Break"),
                    fvg, "Fair Value Gap"),
                    bos, "Break of Structure")
    /\ epc' = "tech"
    /\ UNCHANGED <<mainVars, fetch, site, selected, df>>
\* lines 201-215: the smart money conditions and their labels
EngineStructure ==
    /\ epc = "smc"
    /\ LET ob == DetectOrderBlocks(df)
           fvg == DetectFairValueGap(df)
           bos == BosBreak(df)
       IN /\ ind' = [ind EXCEPT !.ob_detected = ob, !.fvg_zone = fvg, !.bos_break = bos]
          /\ confirmations' =
                AppendIf(AppendIf(AppendIf(confirmations,
                    ob /\ bos, "Order Block Break"),
                    fvg, "Fair Value Gap"),
                    bos, "Break of Structure")
    /\ epc' = "tech"
    /\ UNCHANGED <<mainVars, fetch, site, selected, df>>

\* the labels of lines 267-278 for the conditions in i
TechnicalLabelsMut(labels, i) ==
    AppendIf(AppendIf(AppendIf(AppendIf(AppendIf(AppendIf(labels,
        i.ema_cross /\ i.macd_signal, "EMA + MACD Confluence"),
        i.supertrend_buy, "SuperTrend Signal"),
        i.boll_band_squeeze, "Bollinger Squeeze"),
        i.volume_spike, "Volume Surge"),
        i.breakout_detected, "Breakout Confirmation"),
        i.hidden_div, "Hidden Divergence")
TechnicalLabels(labels, i) ==
    AppendIf(AppendIf(AppendIf(AppendIf(AppendIf(AppendIf(labels,
        i.ema_cross /\ i.macd_signal, "EMA + MACD Confluence"),
        i.supertrend_buy, "SuperTrend Signal"),
        i.boll_band_squeeze, "Bollinger Squeeze"),
        i.breakout_detected, "Breakout Confirmation"),
        i.volume_spike, "Volume Surge"),
        i.hidden_div, "Hidden Divergence")

\* lines 217-278: the technical conditions and their labels.  The EMA and
\* MACD crosses, the SuperTrend direction, the Bollinger squeeze and the RSI
\* extreme are floating-point series computations: each may come out either
\* way.  The volume spike and the breakout are computed from the candles.
EngineTechnical ==
    /\ epc = "tech"
    /\ \E e, m, st, bb, hd \in BOOLEAN :
         ind' = [ind EXCEPT !.ema_cross = e, !.macd_signal = m,
                            !.supertrend_buy = st, !.boll_band_squeeze = bb,
                            !.hidden_div = hd,
                            !.volume_spike = VolumeSpike(df),
                            !.breakout_detected = BreakoutDetected(df)]
    /\ confirmations' = TechnicalLabels(confirmations, ind')
    /\ epc' = "gate"
    /\ UNCHANGED <<mainVars, fetch, site, selected, df>>

QuantumApprovalMut(labels, i) ==
    Len(labels) >= 3 /\ i.volume_spike /\ (i.ema_cross /\ i.macd_signal)
\* lines 281-282: total_signals >= 3 and volume_spike and (ema_cross or macd_signal)
QuantumApproval(labels, i) ==
    Len(labels) >= 3 /\ i.volume_spike /\ (i.ema_cross \/ i.macd_signal)

\* lines 281-285 and 291: the quantum filter, then return confirmations
EngineGate ==
    /\ epc = "gate"
    /\ confirmations' = AppendIf(confirmations, QuantumApproval(confirmations, ind), Approval)
    /\ epc' = "returned"
    /\ UNCHANGED <<mainVars, fetch, site, selected, df, ind>>

\* a statement of lines 201-285 raises: control is in the except clause with
\* the labels appended so far
EngineFail ==
    /\ epc \in {"smc", "tech", "gate"}
    /\ epc' = "except"
    /\ UNCHANGED <<mainVars, fetch, site, selected, df, ind, confirmations>>

EngineExceptMut ==
    /\ epc = "except"
    /\ confirmations' = Append(confirmations, SystemError)
    /\ epc' = "returned"
    /\ UNCHANGED <<mainVars, fetch, site, selected, df, ind>>
\* lines 287-291: confirmations = ["System Error - Using Fallback"], return
EngineExcept ==
    /\ epc = "except"
    /\ confirmations' = <<SystemError>>
    /\ epc' = "returned"
    /\ UNCHANGED <<mainVars, fetch, site, selected, df, ind>>

\* lines 1315-1326: the scheduler cycle counts the returned labels
CycleClassify ==
    /\ site = "loop"
    /\ epc = "returned"
    /\ LoopEval(1, Len(confirmations))

\* analyze_command, lines 960-980: the reply shows the confidence
AnalyzeReply ==
    /\ site = "analyze"
    /\ epc = "returned"
    /\ hpc = "analyze"
    /\ reply' = (IF Len(confirmations) >= 6 THEN "VERY HIGH"
                 ELSE IF Len(confirmations) >= 4 THEN "HIGH"
                 ELSE IF Len(confirmations) >= 2 THEN "MODERATE" ELSE "LOW")
    /\ hpc' = "idle"
    /\ UNCHANGED <<sessionVars, req, h_args, starts, pc, loopLocals, snap, stopped,
                   raised, cycled, total, ctlVars, evalVars, l_args, sent, auxVars>>

\* quicksignal_command, lines 1862-1876: the reply shows the confidence
QuickReply ==
    /\ site = "quicksignal"
    /\ epc = "returned"
    /\ hpc = "quicksignal"
    /\ reply' = (IF Len(confirmations) >= 4 THEN "HIGH" ELSE "MODERATE")
    /\ hpc' = "idle"
    /\ UNCHANGED <<sessionVars, req, h_args, starts, pc, loopLocals, snap, stopped,
                   raised, cycled, total, ctlVars, evalVars, l_args, sent, auxVars>>

EvalNext ==
    \/ Select
    \/ SimpleSample
    \/ EngineFetch
    \/ EngineStructure
    \/ EngineTechnical
    \/ EngineGate
    \/ EngineFail
    \/ EngineExcept
    \/ CycleClassify
    \/ LoopStore1(1)
    \/ LoopLoad2(1)
    \/ LoopStore2(1)
    \/ LoopNotify(1)
    \/ AnalyzeReply
    \/ QuickReply

EvalSpec == EvalInit /\ [][EvalNext]_vars

\* ------------------------------------------------- the control commands
\* one session followed through the start, stop, strategy and status
\* commands: the bot has answered MaxStarts - 1 malformed /autoagree messages
\* with the usage text, so one /autoagree is still to come
CtlInit ==
    /\ auto_trader_running = FALSE
    /\ current_auto = [symbol |-> "None", timeframes |-> <<>>,
                       leverage |-> 0, strategy |-> "quantum"]
    /\ trade_stats = ZeroStats
    /\ epoch = 0
    /\ hpc = "idle"
    /\ req = <<>>
    /\ h_args = NoConfig
    /\ reply = IF MaxStarts > 1 THEN "usage" ELSE "none"
    /\ starts = MaxStarts - 1
    /\ pc = [l \in Loops |-> "unborn"]
    /\ cnt = [l \in Loops |-> 0]
    /\ ref = [l \in Loops |-> 0]
    /\ tmp = [l \in Loops |-> 0]
    /\ preReset = [l \in Loops |-> FALSE]
    /\ snap = [l \in Loops |-> NoSnap]
    /\ stopped = 0
    /\ raised = [l \in Loops |-> FALSE]
    /\ cycled = FALSE
    /\ total = 0
    /\ current_strategy = "Quantum Engine V2.0"
    /\ report = NoReport
    /\ site = "none"
    /\ selected = "none"
    /\ epc = "idle"
    /\ df = <<>>
    /\ ind = NoInd
    /\ confirmations = <<>>
    /\ l_args = [l \in Loops |-> NoArgs]
    /\ sent = [l \in Loops |-> "none"]
    /\ sender = Admin
    /\ bot_locked = FALSE
    /\ auto_trade_history = <<>>
    /\ csv_rows = <<>>
    /\ dex = NoDex
    /\ man_left = <<>>
    /\ fetch = NoFetch

CtlNext ==
    \/ \E parts \in Messages : StartReceive(parts)
    \/ StartRejected
    \/ StartRequest
    \/ StartConfig
    \/ StartResetStats
    \/ StartReply
    \/ StartSpawn
    \/ StopAuto
    \/ \E id \in StrategyIds : SetStrategy(id)
    \/ Status
    \/ \E l \in Loops : LoopStep(l)

CtlSpec == CtlInit /\ [][CtlNext]_vars

\* ------------------------------------------------- the market data source
\* One call of BybitAPI.get_kline_data(symbol, timeframe, limit), lines
\* 53-94, from the request to the frame it returns.  Timestamps are whole
\* seconds; the clock does not run backwards during a call.

\* the bodies of a response that is JSON: an error code, or code 0 with the
\* list of candles (their timestamps, here) in the order the server chose
Bodies ==
    {[retCode |-> 10001, list |-> <<>>]} \cup
    {[retCode |-> 0, list |-> l] : l \in {<<>>, <<1>>, <<2, 1>>, <<1, 2>>}}

RECURSIVE SortAsc(_)
\* df.sort_values('timestamp')
SortAsc(q) ==
    IF q = <<>> THEN <<>>
    ELSE LET m == MinOf({q[i] : i \in DOMAIN q})
             k == CHOOSE i \in DOMAIN q : q[i] = m
         IN <<m>> \o SortAsc(SubSeq(q, 1, k - 1) \o SubSeq(q, k + 1, Len(q)))

MockTimestampMut(now, i) == now + i * CandleSeconds
\* line 87: int(time.time()) - i * 60
MockTimestamp(now, i) == now - i * CandleSeconds

\* what the steps of a call leave alone
FetchFrame == UNCHANGED <<mainVars, evalVars>>

\* the call, with its limit
FetchCall ==
    /\ fetch.pc = "idle"
    /\ \E n \in 1..MaxLimit :
          fetch' = [NoFetch EXCEPT !.pc = "request", !.limit = n,
                                   !.now = MaxLimit * CandleSeconds]
    /\ FetchFrame

\* time passes while the call is under way
FetchTick ==
    /\ fetch.pc \notin {"idle", "returned"}
    /\ fetch.now < MaxLimit * CandleSeconds + MaxTick
    /\ fetch' = [fetch EXCEPT !.now = @ + 1]
    /\ FetchFrame

\* line 63: requests.get(url, params=params, timeout=10) returns a response
\* or raises (no connection, timeout); the except clause of lines 78-80
\* goes on to the mock data
FetchRequest ==
    /\ fetch.pc = "request"
    /\ \/ fetch' = [fetch EXCEPT !.pc = "json"]
       \/ fetch' = [fetch EXCEPT !.pc = "mock", !.why = "network"]
    /\ FetchFrame

\* lines 64-66 and 75-77: response.json() raises on a body that is not
\* JSON; a body with another retCode than 0 or without candles takes the
\* else branch; both go on to the mock data
FetchJson ==
    /\ fetch.pc = "json"
    /\ \/ fetch' = [fetch EXCEPT !.pc = "mock", !.why = "parse"]
       \/ \E b \in Bodies :
             IF b.retCode = 0 /\ b.list # <<>>
               THEN fetch' = [fetch EXCEPT !.pc = "frame", !.rows = b.list]
               ELSE fetch' = [fetch EXCEPT !.pc = "mock", !.why = "response"]
    /\ FetchFrame

\* lines 67-74: the frame is built and its columns converted, which raises
\* on a row that is not numeric; otherwise the rows are returned sorted
FetchConvert ==
    /\ fetch.pc = "frame"
    /\ \/ fetch' = [fetch EXCEPT !.pc = "returned", !.rows = SortAsc(@)]
       \/ fetch' = [fetch EXCEPT !.pc = "mock", !.why = "convert", !.rows = <<>>]
    /\ FetchFrame

\* line 87: the next element of the timestamp list, for i = limit, ..., 1
MockStamp ==
    /\ fetch.pc = "mock"
    /\ Len(fetch.rows) < fetch.limit
    /\ fetch' = [fetch EXCEPT
                   !.rows = Append(@, MockTimestamp(fetch.now, fetch.limit - Len(@)))]
    /\ FetchFrame

\* lines 88-94: the other columns have limit elements each and the frame is
\* returned
MockReturn ==
    /\ fetch.pc = "mock"
    /\ Len(fetch.rows) = fetch.limit
    /\ fetch' = [fetch EXCEPT !.pc = "returned"]
    /\ FetchFrame

FetchNext ==
    \/ FetchCall
    \/ FetchTick
    \/ FetchRequest
    \/ FetchJson
    \/ FetchConvert
    \/ MockStamp
    \/ MockReturn

FetchSpec == Init /\ [][FetchNext]_vars

\* ------------------------------------------------- the trade recorder
\* record_auto_trade and its callers: the background thread
\* auto_trade_dex_loop and the /autotrade handler, next to the /lock and
\* /unlock handlers and the session's start and stop commands.  The handlers
\* run one at a time on the polling thread, the DEX loop on its own thread.

\* the pair addresses of the trending pairs, in the order of the response
Trending == <<"T1", "T2", "T3", "T4">>

\* the numbers of pairs of a response: none, one, more than TokenCap
PairCounts == {0, 1, Len(Trending)}

\* token_list: the first TokenCap addresses of a response of n pairs
TokenList(n) == SubSeq(Trending, 1, IF n < TokenCap THEN n ELSE TokenCap)

\* the dict of lines 401-408 (DEMO_MODE is on unless the environment says
\* otherwise; the timestamp and the empty tx_hash are left out)
Entry(token, amount) ==
    [action |-> "BUY", token |-> token, amount |-> amount, status |-> "DEMO"]

RecordAppendMut(history, e) == <<e>> \o history
\* line 401: auto_trade_history.append({...})
RecordAppend(history, e) == Append(history, e)

\* the polling thread takes the next message of the update queue
Dispatch(u) ==
    /\ hpc = "idle"
    /\ sender # u
    /\ sender' = u
    /\ UNCHANGED <<sessionVars, handlerVars, pc, loopLocals, snap, stopped, raised,
                   cycled, total, ctlVars, evalVars, l_args, sent, bot_locked,
                   auto_trade_history, csv_rows, dex, man_left, fetch>>

\* lock_command, lines 1447-1454
Lock ==
    /\ hpc = "idle"
    /\ IF sender = Admin
         THEN bot_locked' = TRUE /\ reply' = "locked"
         ELSE reply' = "unauthorized" /\ UNCHANGED bot_locked
    /\ UNCHANGED <<sessionVars, hpc, req, h_args, starts, pc, loopLocals, snap,
                   stopped, raised, cycled, total, ctlVars, evalVars, l_args, sent,
                   sender, auto_trade_history, csv_rows, dex, man_left, fetch>>

\* unlock_command, lines 1456-1463
Unlock ==
    /\ hpc = "idle"
    /\ IF sender = Admin
         THEN bot_locked' = FALSE /\ reply' = "unlocked"
         ELSE reply' = "unauthorized" /\ UNCHANGED bot_locked
    /\ UNCHANGED <<sessionVars, hpc, req, h_args, starts, pc, loopLocals, snap,
                   stopped, raised, cycled, total, ctlVars, evalVars, l_args, sent,
                   sender, auto_trade_history, csv_rows, dex, man_left, fetch>>

\* what the steps of the /autotrade handler leave alone
ManFrame ==
    UNCHANGED <<sessionVars, req, h_args, starts, pc, loopLocals, snap, stopped,
                raised, cycled, total, ctlVars, evalVars, l_args, sent, sender,
                bot_locked, dex, fetch>>

\* manual_auto_trade, lines 1466-1468 and 1483-1484: only the admin goes on
ManReceive ==
    /\ hpc = "idle"
    /\ IF sender = Admin
         THEN hpc' = "a_fetch" /\ UNCHANGED reply
         ELSE reply' = "admin required" /\ UNCHANGED hpc
    /\ UNCHANGED <<auto_trade_history, csv_rows, man_left>>
    /\ ManFrame

\* lines 1470-1473 and 1479-1482: the request raises, or answers another
\* status than 200, or answers n trending pairs
ManFetch ==
    /\ hpc = "a_fetch"
    /\ \/ /\ \E r \in {"error", "dex error"} : reply' = r
          /\ hpc' = "idle"
          /\ UNCHANGED man_left
       \/ \E n \in PairCounts :
             /\ man_left' = TokenList(n)
             /\ IF n = 0
                  THEN reply' = "executed" /\ hpc' = "idle"
                  ELSE hpc' = "a_trade" /\ UNCHANGED reply
    /\ UNCHANGED <<auto_trade_history, csv_rows>>
    /\ ManFrame

\* line 1476 -> lines 424 and 401: execute_auto_signal("BUY", token, 0.01)
\* records the trade in the list
ManTrade ==
    /\ hpc = "a_trade"
    /\ Len(auto_trade_history) < MaxTrades
    /\ auto_trade_history' = RecordAppend(auto_trade_history, Entry(Head(man_left), "0.01"))
    /\ hpc' = "a_save"
    /\ UNCHANGED <<reply, csv_rows, man_left>>
    /\ ManFrame

\* lines 412-420: the row is written to the file, or the write raises and
\* the error is printed; then the next token, and the reply of line 1478
ManSave ==
    /\ hpc = "a_save"
    /\ \/ csv_rows' = Append(csv_rows, Entry(Head(man_left), "0.01"))
       \/ UNCHANGED csv_rows
    /\ man_left' = Tail(man_left)
    /\ IF Tail(man_left) = <<>>
         THEN reply' = "executed" /\ hpc' = "idle"
         ELSE hpc' = "a_trade" /\ UNCHANGED reply
    /\ UNCHANGED auto_trade_history
    /\ ManFrame

\* what the steps of auto_trade_dex_loop leave alone
DexFrame ==
    UNCHANGED <<sessionVars, handlerVars, pc, loopLocals, snap, stopped, raised,
                cycled, total, ctlVars, evalVars, l_args, sent, sender, bot_locked,
                man_left, fetch>>

\* line 2471: if not auto_trader_running
DexCheck ==
    /\ dex.pc = "check"
    /\ dex' = [dex EXCEPT !.pc = IF auto_trader_running THEN "sleep" ELSE "fetch"]
    /\ UNCHANGED <<auto_trade_history, csv_rows>>
    /\ DexFrame

\* lines 2472-2475 and 2479-2482: the request (timeout 10 s) raises, or
\* answers another status than 200, or answers n trending pairs
DexFetch ==
    /\ dex.pc = "fetch"
    /\ \/ dex' = [dex EXCEPT !.pc = "sleep"]
       \/ \E n \in PairCounts :
             dex' = [pc |-> IF n = 0 THEN "sleep" ELSE "trade", left |-> TokenList(n)]
    /\ UNCHANGED <<auto_trade_history, csv_rows>>
    /\ DexFrame

\* line 2477 -> lines 424 and 401: execute_auto_signal("BUY", token, 0.005)
\* records the trade in the list
DexTrade ==
    /\ dex.pc = "trade"
    /\ Len(auto_trade_history) < MaxTrades
    /\ auto_trade_history' = RecordAppend(auto_trade_history, Entry(Head(dex.left), "0.005"))
    /\ dex' = [dex EXCEPT !.pc = "save"]
    /\ UNCHANGED csv_rows
    /\ DexFrame

\* lines 412-420: the row is written or the error printed; then the next
\* token
DexSave ==
    /\ dex.pc = "save"
    /\ \/ csv_rows' = Append(csv_rows, Entry(Head(dex.left), "0.005"))
       \/ UNCHANGED csv_rows
    /\ dex' = [pc |-> IF Tail(dex.left) = <<>> THEN "sleep" ELSE "trade",
               left |-> Tail(dex.left)]
    /\ UNCHANGED auto_trade_history
    /\ DexFrame

\* line 2484: time.sleep(300) returns
DexSleep ==
    /\ dex.pc = "sleep"
    /\ dex' = [dex EXCEPT !.pc = "check"]
    /\ UNCHANGED <<auto_trade_history, csv_rows>>
    /\ DexFrame

DexStep == DexCheck \/ DexFetch \/ DexTrade \/ DexSave \/ DexSleep

\* the bot after MaxStarts - 1 malformed /autoagree messages, the DEX loop
\* at the top of its first round
TradeInit == CtlInit

TradeNext ==
    \/ ManReceive
    \/ ManFetch
    \/ ManTrade
    \/ ManSave
    \/ DexStep
    \/ \E parts \in Messages : StartReceive(parts)
    \/ StartRejected
    \/ StartRequest
    \/ StartConfig
    \/ StartResetStats
    \/ StartReply
    \/ StartSpawn
    \/ StopAuto

TradeSpec == TradeInit /\ [][TradeNext]_vars

\* the lock: messages of the admin and of another user, the /lock and
\* /unlock commands and the commands of the session
LockNext ==
    \/ \E u \in Users : Dispatch(u)
    \/ Lock
    \/ Unlock
    \/ ManReceive
    \/ ManFetch
    \/ ManTrade
    \/ ManSave
    \/ \E parts \in Messages : StartReceive(parts)
    \/ StartRejected
    \/ StartRequest
    \/ StartConfig
    \/ StartResetStats
    \/ StartReply
    \/ StartSpawn
    \/ StopAuto

LockSpec == TradeInit /\ [][LockNext]_vars

\* ------------------------------------------------- a session restarted
\* /autoagree messages for another symbol and timeframe
RestartMessages ==
    {<<"/autoagree", "ethusdt">>, <<"/autoagree", "ethusdt", "1h", "5x">>}

\* the first session runs on BTCUSDT 15m with its loop at time.sleep(10);
\* one more /autoagree message, for another configuration, and strategy
\* commands follow while the loops run (the requests before the session's
\* were malformed and got the usage text)
CfgInit ==
    /\ auto_trader_running = TRUE
    /\ current_auto = [symbol |-> "BTCUSDT", timeframes |-> <<"15m">>,
                       leverage |-> 5, strategy |-> "Quantum Engine V2.0"]
    /\ trade_stats = ZeroStats
    /\ epoch = 1
    /\ hpc = "idle"
    /\ req = <<>>
    /\ h_args = NoConfig
    /\ reply = "started"
    /\ starts = MaxStarts - 1
    /\ pc = [l \in Loops |-> IF l = 1 THEN "check" ELSE "unborn"]
    /\ cnt = [l \in Loops |-> 0]
    /\ ref = [l \in Loops |-> 0]
    /\ tmp = [l \in Loops |-> 0]
    /\ preReset = [l \in Loops |-> FALSE]
    /\ snap = [l \in Loops |-> NoSnap]
    /\ stopped = 0
    /\ raised = [l \in Loops |-> FALSE]
    /\ cycled = FALSE
    /\ total = 0
    /\ current_strategy = "Quantum Engine V2.0"
    /\ report = NoReport
    /\ site = "none"
    /\ selected = "none"
    /\ epc = "idle"
    /\ df = <<>>
    /\ ind = NoInd
    /\ confirmations = <<>>
    /\ l_args = [l \in Loops |-> IF l = 1
                                   THEN [symbol |-> "BTCUSDT", timeframes |-> <<"15m">>]
                                   ELSE NoArgs]
    /\ sent = [l \in Loops |-> "none"]
    /\ sender = Admin
    /\ bot_locked = FALSE
    /\ auto_trade_history = <<>>
    /\ csv_rows = <<>>
    /\ dex = NoDex
    /\ man_left = <<>>
    /\ fetch = NoFetch

CfgNext ==
    \/ \E parts \in RestartMessages : StartReceive(parts)
    \/ StartRejected
    \/ StartRequest
    \/ StartConfig
    \/ StartResetStats
    \/ StartReply
    \/ StartSpawn
    \/ \E id \in StrategyIds : SetStrategy(id)
    \/ \E l \in Loops : LoopStep(l)

CfgSpec == CfgInit /\ [][CfgNext]_vars

TypeOK ==
    /\ auto_trader_running \in BOOLEAN
    /\ epoch \in 0..MaxStarts
    /\ starts \in 0..MaxStarts
    /\ total \in 0..MaxCycles
    /\ cycled \in BOOLEAN
    /\ trade_stats.wins \in 0..MaxCycles
    /\ trade_stats.losses \in 0..MaxCycles

\* ------------------------------------------------------------------ claims

\* trade_stats after a cycle of n confirmations that started from s
AfterCycle(s, n) ==
    IF n >= 6 THEN [wins |-> s.wins + 1, losses |-> s.losses,
                    profit_pct |-> s.profit_pct + 35]
    ELSE IF n >= 3 /\ n <= 5 THEN [wins |-> s.wins, losses |-> s.losses + 1,
                                   profit_pct |-> s.profit_pct - 8]
    ELSE s

\* C1: the stat change of a cycle depends only on n = len(confirmations):
\* when the cycle has made its update and no other thread has written the
\* stats meanwhile, n >= 6 has added 1 to wins and 35 to profit_pct, 3 <= n <= 5
\* has added 1 to losses and taken 8 from profit_pct; no step of a cycle with
\* n < 3 changes a counter.
C1_CycleDelta ==
    /\ [](\A l \in Loops :
            (pc[l] = "notify" /\ snap[l].ok)
                => trade_stats = AfterCycle(snap[l].s, cnt[l]))
    /\ [][\A l \in Loops :
            (InCycle(l) /\ pc'[l] # pc[l] /\ cnt[l] < 3 /\ cnt'[l] < 3)
                => trade_stats' = AfterCycle(trade_stats, cnt'[l])]_vars

\* C1 witness: a cycle of 6 confirmations has made its update undisturbed
C1_Witness ==
    \E l \in Loops : /\ pc[l] = "notify" /\ snap[l].ok /\ cnt[l] = 6
                     /\ trade_stats = [wins |-> 1, losses |-> 0, profit_pct |-> 35]

\* C2: at most one auto_trade_loop thread is live at any time
C2_AtMostOneLoop == Cardinality(LiveLoops) <= 1

\* C3: once running is false, every loop that is live at that moment
\* eventually terminates, whatever requests follow (loops scheduled fairly)
C3_StoppedLoopsTerminate ==
    \A l \in Loops : (~auto_trader_running /\ Live(l)) ~> ~Live(l)

\* C4: a loop begins a cycle only if it saw running = true at the top of the
\* cycle, and a loop that was live when a stop was handled never begins
\* another cycle
C4_NoCycleAfterStop ==
    [][\A l \in Loops : (pc[l] = "check" /\ pc'[l] = "eval")
                            => (auto_trader_running /\ l > stopped)]_vars

\* C5: a cycle that raises does not stop the session: the exception is
\* caught, running is left as it is, the loop is back at its sleep, and at the
\* top of the loop it begins another cycle if running is still true
C5_BadCycleSurvives ==
    [][\A l \in Loops :
          /\ (pc[l] \in {"eval", "notify"} /\ pc'[l] # pc[l] /\ raised'[l])
                => (pc'[l] = "check" /\ auto_trader_running' = auto_trader_running)
          /\ (raised[l] /\ pc[l] = "check" /\ pc'[l] # "check")
                => (pc'[l] = "eval" <=> auto_trader_running)]_vars

\* C5 witness: a cycle that updated a counter raised at its notification and
\* the loop is back at the top with the session still running
C5_Witness ==
    \E l \in Loops : /\ raised[l] /\ pc[l] = "check" /\ auto_trader_running
                     /\ trade_stats.wins = 1

\* C6: no two threads are inside a read/update of the session state at the
\* same time (a loop between the load and the store of a counter, the start
\* handler between its first and its last assignment)
C6_MutualExclusion ==
    Cardinality({l \in Loops : pc[l] \in {"st1", "st2"}})
        + (IF hpc \in {"s_cfg", "s_stats"} THEN 1 ELSE 0) <= 1

\* C7: wins + losses is at most the number of cycles completed since the
\* last stats reset; in particular it is zero as long as no cycle has completed
C7_WinsLossesBounded == ~cycled => trade_stats.wins + trade_stats.losses <= 0

\* C8: a start resets the stats to zero, and no update of a cycle begun
\* before the reset lands in the new stats
C8_ResetAndFresh ==
    [][/\ (epoch' # epoch => trade_stats' = ZeroStats)
       /\ \A l \in Loops :
            (pc[l] \in {"st1", "st2"} /\ pc'[l] # pc[l] /\ trade_stats' # trade_stats)
                => ~preReset[l]]_vars

\* C9: whenever running = true, config.timeframes is non-empty
C9_TimeframesNonEmpty ==
    auto_trader_running => Len(current_auto.timeframes) > 0

\* the timeframe list of an /autoagree message: the tokens between the
\* symbol and the leverage, parts[2:-1]
RequestTimeframes(parts) ==
    IF Len(parts) >= 4 THEN SubSeq(parts, 3, Len(parts) - 1) ELSE <<>>

\* C10: a start request with an empty timeframe list is rejected: it gets the
\* usage (or error) reply, running is left as it was, so a stopped session
\* stays stopped, no configuration or stats are written and no loop is started
C10_EmptyTimeframesRejected ==
    [][(hpc = "s_parse" /\ RequestTimeframes(req) = <<>>)
          => /\ auto_trader_running' = auto_trader_running
             /\ hpc' \in {"s_parse", "idle"}
             /\ hpc' = "idle" => reply' \in {"usage", "error"}
             /\ current_auto' = current_auto
             /\ epoch' = epoch
             /\ starts' = starts
             /\ \A l \in Loops : pc[l] = "unborn" => pc'[l] = "unborn"]_vars

\* C10 witness: the usage reply was sent and the session is still stopped
\* with no loop
C10_Witness ==
    /\ reply = "usage" /\ hpc = "idle" /\ ~auto_trader_running
    /\ \A l \in Loops : pc[l] = "unborn"

\* C11: stopping a session that is not running is a no-op: running stays
\* false, and wins, losses, profit_pct and the configuration are unchanged
C11_StopWhenStoppedNoOp ==
    [][(StopAuto /\ ~auto_trader_running)
          => /\ auto_trader_running' = FALSE
             /\ trade_stats' = trade_stats
             /\ epoch' = epoch
             /\ current_auto' = current_auto
             /\ pc' = pc]_vars

\* C11 witness: /stopauto has been answered and no session was ever started
C11_Witness ==
    /\ reply = "stopped" /\ hpc = "idle" /\ epoch = 0
    /\ ~auto_trader_running /\ trade_stats = ZeroStats

\* C12: the statistics are written only by the scheduler loop and reset by a
\* start: /stopauto, the strategy commands and /status leave wins, losses and
\* profit_pct as they are
C12_OnlyLoopWritesStats ==
    [][/\ (StopAuto \/ Status \/ \E id \in StrategyIds : SetStrategy(id))
            => (trade_stats' = trade_stats /\ epoch' = epoch)
       /\ (trade_stats' # trade_stats \/ epoch' # epoch)
            => (hpc = "s_stats" \/ \E l \in Loops : pc[l] \in {"st1", "st2"} /\ pc'[l] # pc[l])]_vars

\* C12 witness: a session got a win, its strategy was changed, its status
\* was shown with the win, it was stopped, and the win is still there
C12_Witness ==
    /\ report.kind = "status" /\ report.running /\ report.stats.wins = 1
    /\ report.strategy = "Mean Reversion V1.0"
    /\ current_strategy = "Mean Reversion V1.0"
    /\ reply = "stopped" /\ ~auto_trader_running
    /\ trade_stats = [wins |-> 1, losses |-> 0, profit_pct |-> 35]

\* C13: a status reply shows running, the configuration and the statistics
\* in every session state, so also those of a session that has been stopped
C13_StatusShowsAll ==
    report.kind = "status" => {"running", "config", "stats"} \subseteq DOMAIN report

\* ---- the strategy evaluation (checked under EvalSpec)

Range(f) == {f[i] : i \in DOMAIN f}
IsSentinel(labels) == labels \in {<<DataError>>, <<SystemError>>}
HasApproval(labels) == \E i \in 1..Len(labels) : labels[i] = Approval
OtherLabels(labels) == Cardinality({i \in 1..Len(labels) : labels[i] # Approval})

\* the confluence engine has returned the labels of a complete computation
EngineReturned ==
    selected = "quantum" /\ epc = "returned" /\ ~IsSentinel(confirmations)

\* C14: the engine's result has the approval label iff it has at least 3
\* other labels and volume_spike and (ema_cross or macd_signal), whatever the
\* conditions are
C14_ApprovalIff ==
    EngineReturned =>
        (HasApproval(confirmations)
            <=> /\ OtherLabels(confirmations) >= 3
                /\ ind.volume_spike
                /\ (ind.ema_cross \/ ind.macd_signal))

\* C14 witness: approval on exactly three other labels, with the MACD cross
\* and without the EMA cross
C14_Witness ==
    /\ EngineReturned /\ HasApproval(confirmations)
    /\ OtherLabels(confirmations) = 3 /\ ~ind.ema_cross /\ ind.macd_signal

\* the condition the claim gives for each label
LabelCond(label, i) ==
    CASE label = "Order Block Break" -> i.ob_detected /\ i.bos_break
      [] label = "Fair Value Gap" -> i.fvg_zone
      [] label = "Break of Structure" -> i.bos_break
      [] label = "EMA + MACD Confluence" -> i.ema_cross /\ i.macd_signal
      [] label = "SuperTrend Signal" -> i.supertrend_buy
      [] label = "Bollinger Squeeze" -> i.boll_band_squeeze
      [] label = "Breakout Confirmation" -> i.breakout_detected
      [] label = "Volume Surge" -> i.volume_spike
      [] label = "Hidden Divergence" -> i.hidden_div

\* C15: the engine's result is the sub-sequence of the fixed label order
\* whose conditions are true, followed by the approval label if it is there
C15_FixedOrder ==
    EngineReturned =>
        LET Holds(label) == LabelCond(label, ind)
            expected == SelectSeq(<<"Order Block Break", "Fair Value Gap",
                                    "Break of Structure", "EMA + MACD Confluence",
                                    "SuperTrend Signal", "Bollinger Squeeze",
                                    "Breakout Confirmation", "Volume Surge",
                                    "Hidden Divergence">>, Holds)
        IN confirmations \in {expected, Append(expected, Approval)}

\* C15 witness: an EMA cross without a MACD cross gives no confluence label,
\* and breakout comes before volume, with the approval last
C15_Witness ==
    /\ EngineReturned /\ ind.ema_cross /\ ~ind.macd_signal
    /\ confirmations = <<"Order Block Break", "Fair Value Gap", "Break of Structure",
                         "Breakout Confirmation", "Volume Surge", Approval>>

\* C16: a failure inside the engine ends in exactly one sentinel label,
\* whatever was appended before, and a scheduler cycle that gets a sentinel
\* changes no statistic: it takes the third branch
C16_FailureIsNeutral ==
    /\ [][(epc = "except" /\ epc' # "except")
             => (epc' = "returned" /\ Len(confirmations') = 1
                 /\ IsSentinel(confirmations'))]_vars
    /\ []((site = "loop" /\ epc = "returned" /\ IsSentinel(confirmations))
             => (trade_stats = ZeroStats /\ pc[1] \in {"eval", "notify", "check"}))

\* C16 witness: the engine failed after the volume label had been appended,
\* and the cycle has ended with the statistics untouched
C16_Witness ==
    /\ site = "loop" /\ confirmations = <<SystemError>> /\ ind.volume_spike
    /\ pc[1] = "check" /\ trade_stats = ZeroStats

\* C17: the engine never returns more than 10 labels, and its result is
\* always a sequence
C17_AtMostTenLabels ==
    (selected = "quantum" /\ epc = "returned")
        => (Len(confirmations) <= 10 /\ DOMAIN confirmations = 1..Len(confirmations))

\* C17 witness: all nine conditions hold and the approval is added
C17_Witness == EngineReturned /\ Len(confirmations) = 10

\* candles with low <= close <= high
WellFormed(d) == \A i \in 1..Len(d) : d[i].low <= d[i].close /\ d[i].close <= d[i].high
\* closes that never fall and rise at the last candle
AscendingCloses(d) ==
    /\ \A i \in 1..(Len(d) - 1) : d[i].close <= d[i + 1].close
    /\ Len(d) > 1 /\ d[Len(d) - 1].close < d[Len(d)].close

\* C18: for SeriesLen (25) candles with ascending closes, a volume spike on
\* the last candle and an EMA 9/21 cross on the last two, the engine's result
\* includes Breakout Confirmation, Volume Surge and the approval label
C18_AscendingScenario ==
    (/\ EngineReturned
     /\ Len(df) = SeriesLen /\ WellFormed(df) /\ AscendingCloses(df)
     /\ VolumeSpike(df) /\ ind.ema_cross)
        => {"Breakout Confirmation", "Volume Surge", Approval} \subseteq Range(confirmations)

SimpleFns == {"momentum", "breakout", "meanrev"}

\* every set of 2 to 6 candidate labels is the label set of a possible result
AllSubsetsPossible ==
    \A fn \in SimpleFns :
        {Range(r) : r \in SimpleResults(fn)}
            = {S \in SUBSET Candidates(fn) : Cardinality(S) >= 2 /\ Cardinality(S) <= 6}

\* C20: a simplified strategy returns k distinct labels of its own list of
\* six, 2 <= k <= 6, every such label set being possible; the cycle that uses
\* it is neutral exactly for k = 2, weak for 3 <= k <= 5, strong for k = 6
C20_SimpleStrategies ==
    /\ AllSubsetsPossible
    /\ (epc = "returned" /\ selected \in SimpleFns)
          => LET k == Len(confirmations)
             IN /\ k >= 2 /\ k <= 6
                /\ Cardinality(Candidates(selected)) = 6
                /\ Range(confirmations) \subseteq Candidates(selected)
                /\ Cardinality(Range(confirmations)) = k
                /\ (site = "loop" /\ pc[1] = "notify")
                      => /\ (k = 2) <=> (trade_stats = ZeroStats)
                         /\ (k >= 3 /\ k <= 5)
                              <=> (trade_stats = [wins |-> 0, losses |-> 1, profit_pct |-> -8])
                         /\ (k = 6)
                              <=> (trade_stats = [wins |-> 1, losses |-> 0, profit_pct |-> 35])

\* C20 witness: the breakout strategy returned all six labels and the cycle
\* counted a win
C20_Witness ==
    /\ site = "loop" /\ selected = "breakout" /\ epc = "returned"
    /\ Len(confirmations) = 6 /\ pc[1] = "notify" /\ trade_stats.wins = 1

\* the engine has computed the three structure conditions of df
StructureComputed == selected = "quantum" /\ epc \in {"tech", "gate"}

\* C22: a series shorter than a detector's window gives that detector's
\* condition as false: the order block below 20 candles, the fair value gap
\* below 3, the break of structure below the 20 candles of its trailing high
C22_ShortSeriesInsufficient ==
    StructureComputed =>
        /\ Len(df) < 20 => ~ind.ob_detected
        /\ Len(df) < 3 => ~ind.fvg_zone
        /\ Len(df) < 20 => ~ind.bos_break

\* C26: a cycle sends nothing before its last statement; when the send
\* raises, the loop goes to its sleep and the next test of the flag without
\* sending again and trade_stats keeps the update the cycle made; when it
\* does not raise, the one message sent is the success text for 6 or more
\* labels, the caution text for 3 to 5 and the waiting text below 3
C26_NotifyFailureKeepsUpdate ==
    /\ [](\A l \in Loops : InCycle(l) => sent[l] = "none")
    /\ [][\A l \in Loops :
            (pc[l] = "notify" /\ pc'[l] # "notify")
                => /\ pc'[l] = "check"
                   /\ trade_stats' = trade_stats
                   /\ sent'[l] = IF raised'[l] THEN "none"
                                 ELSE IF cnt[l] >= 6 THEN "success"
                                 ELSE IF cnt[l] >= 3 THEN "caution"
                                 ELSE "waiting"]_vars

\* C26 witness: the send of a cycle that counted a win raised; the loop is
\* at its sleep, nothing was sent and the win is kept
C26_Witness ==
    /\ site = "loop" /\ pc[1] = "check" /\ raised[1] /\ sent[1] = "none"
    /\ trade_stats = [wins |-> 1, losses |-> 0, profit_pct |-> 35]

\* C27: when no handler is under way and the flag is set, some loop thread
\* is live
C27_RunningHasLoop ==
    (hpc = "idle" /\ auto_trader_running) => LiveLoops # {}

\* C28: while no loop is between the two stores of its stat update,
\* profit_pct = 35 * wins - 8 * losses
C28_ProfitFormula ==
    (\A l \in Loops : pc[l] \notin {"st1", "ld2", "st2"})
        => trade_stats.profit_pct
              = WinProfit * trade_stats.wins - LossProfit * trade_stats.losses

\* every price of the series is positive
PositivePrices(d) ==
    \A i \in 1..Len(d) : d[i].low > 0 /\ d[i].close > 0 /\ d[i].high > 0

\* C29: for candles with low <= close <= high and positive prices the engine
\* returns none of Break of Structure, Order Block Break and Breakout
\* Confirmation; and a result with Break of Structure has Breakout
\* Confirmation too
C29_NoBreakOnWellFormed ==
    EngineReturned =>
        /\ (WellFormed(df) /\ PositivePrices(df))
              => Range(confirmations) \cap {"Break of Structure", "Order Block Break",
                                            "Breakout Confirmation"} = {}
        /\ "Break of Structure" \in Range(confirmations)
              => "Breakout Confirmation" \in Range(confirmations)

\* C29 witness: the engine returned labels, Volume Surge among them, for
\* SeriesLen well-formed candles whose last close rose
C29_Witness ==
    /\ EngineReturned /\ ~IsSentinel(confirmations)
    /\ Len(df) = SeriesLen /\ WellFormed(df) /\ PositivePrices(df)
    /\ AscendingCloses(df) /\ "Volume Surge" \in Range(confirmations)

\* C25: a cycle that begins, the loop having seen the flag set, evaluates
\* the symbol and the timeframes of the configuration current at that moment
\* (the strategy it evaluates is current_strategy, read in the cycle itself)
C25_CycleReadsCurrentConfig ==
    [][\A l \in Loops :
          (pc[l] = "check" /\ pc'[l] = "eval")
              => /\ l_args[l].symbol = current_auto.symbol
                 /\ l_args[l].timeframes = current_auto.timeframes]_vars

\* h is g with at most one entry added at its end
Extends(h, g) ==
    /\ Len(h) \in {Len(g), Len(g) + 1}
    /\ SubSeq(h, 1, Len(g)) = g

\* C23: every step leaves the entries of auto_trade_history and the rows of
\* the file as they are, in their order, adding at most one at the end; a
\* record call adds exactly one entry, its own, at the end of the list; and
\* whether or not the row could be written, the caller goes on with its
\* next token or ends its round, also while the other caller is recording
C23_AppendOnly ==
    /\ [][/\ Extends(auto_trade_history', auto_trade_history)
          /\ Extends(csv_rows', csv_rows)]_vars
    /\ [][(dex.pc = "trade" /\ dex'.pc # "trade")
            => /\ auto_trade_history'
                    = Append(auto_trade_history, Entry(Head(dex.left), "0.005"))
               /\ dex'.pc = "save"]_vars
    /\ [][(hpc = "a_trade" /\ hpc' # "a_trade")
            => /\ auto_trade_history'
                    = Append(auto_trade_history, Entry(Head(man_left), "0.01"))
               /\ hpc' = "a_save"]_vars
    /\ [][(dex.pc = "save" /\ dex' # dex)
            => /\ dex'.left = Tail(dex.left)
               /\ dex'.pc = IF dex'.left = <<>> THEN "sleep" ELSE "trade"]_vars
    /\ [][(hpc = "a_save" /\ hpc' # "a_save")
            => /\ man_left' = Tail(man_left)
               /\ hpc' = IF man_left' = <<>> THEN "idle" ELSE "a_trade"
               /\ hpc' = "idle" => reply' = "executed"]_vars

\* C23 witness: the DEX loop recorded a trade and the /autotrade handler the
\* next; the row of the DEX loop could not be written, and both callers
\* ended their rounds
C23_Witness ==
    /\ Len(auto_trade_history) = 2
    /\ auto_trade_history[1].amount = "0.005"
    /\ auto_trade_history[2].amount = "0.01"
    /\ csv_rows = <<auto_trade_history[2]>>
    /\ hpc = "idle" /\ reply = "executed" /\ dex.pc = "sleep"

\* C24: while the lock is set, the handler of a message of another user
\* than the admin changes nothing of the session: not the flag, not the
\* configuration, not the statistics, and it starts no loop and records no
\* trade
C24_LockedRefusesNonAdmin ==
    [][(bot_locked /\ sender # Admin)
          => UNCHANGED <<auto_trader_running, current_auto, trade_stats, epoch, pc,
                         auto_trade_history>>]_vars

\* C30: the DEX loop records a trade only while the flag is not set
C30_NoDexTradeWhileRunning ==
    [][(dex.pc = "trade" /\ auto_trade_history' # auto_trade_history /\ dex' # dex)
          => ~auto_trader_running]_vars

\* C21: a call whose request raised, whose body was not JSON or could not
\* be converted, or whose response was an error or had no candles, returns a
\* frame of exactly limit rows whose timestamps ascend strictly, so none is
\* repeated; and a call only ever ends by returning a frame
C21_FallbackOnFailure ==
    /\ fetch.pc \in {"idle", "request", "json", "frame", "mock", "returned"}
    /\ (fetch.pc = "mock") => fetch.why # "none"
    /\ (fetch.pc = "returned" /\ fetch.why # "none")
          => /\ Len(fetch.rows) = fetch.limit
             /\ \A i \in 1..(Len(fetch.rows) - 1) : fetch.rows[i] < fetch.rows[i + 1]
             /\ Cardinality({fetch.rows[i] : i \in DOMAIN fetch.rows}) = fetch.limit

\* C21 witness: the request raised and the call returned MaxLimit mock rows
\* while the clock advanced
C21_Witness ==
    /\ fetch.pc = "returned" /\ fetch.why = "network"
    /\ fetch.limit = MaxLimit /\ Len(fetch.rows) = MaxLimit
    /\ fetch.now > MaxLimit * CandleSeconds

====
